---------------------------- MODULE Spec2Model ----------------------------
(***************************************************************************)
(* The Hazardous Warehouse: the environment's state machine                *)
(* (hazardous_warehouse_env.py) and the knowledge-based agent that drives  *)
(* it (warehouse_kb_agent.py).                                             *)
(*                                                                         *)
(* Cells are pairs <<x, y>>, x in 1..width, y in 1..height.  Rewards are   *)
(* the integers the code's floats hold (-1.0, -9.0, -1000.0, 1000.0).      *)
(* A Python dict (the step's info, a log record) is a record whose fields  *)
(* are the keys present.                                                   *)
(***************************************************************************)
EXTENDS Integers, Sequences, FiniteSets

VARIABLES
    \* HazardousWarehouseEnv
    width, height, num_damaged,
    damaged, forklift, forklift_alive, package,
    robot,
    steps, total_reward, last_percept, terminated, success, history,
    \* what the last call of reset()/step() returned to its caller
    ret,
    \* the Z3 solver holding the knowledge base
    solver,
    \* WarehouseKBAgent (its other fields) and the locals of its run() loop
    agent, pc, percept, action

envVars == <<width, height, num_damaged, damaged, forklift, forklift_alive,
             package, robot, steps, total_reward, last_percept, terminated,
             success, history>>
agentVars == <<solver, agent, pc, percept, action>>
vars == <<envVars, ret, agentVars>>

(***************************************************************************)
(* Bounds of the model.                                                    *)
(***************************************************************************)
MaxWidth == 3
MaxHeight == 3
MaxCells == 4
MaxDamaged == 2
MaxAgentSteps == 32
MaxSteps == 6

(***************************************************************************)
(* Direction, Action, Percept                                              *)
(***************************************************************************)
Direction == {"NORTH", "EAST", "SOUTH", "WEST"}

Action == {"FORWARD", "TURN_LEFT", "TURN_RIGHT", "GRAB", "SHUTDOWN", "EXIT"}

\* list.index(v)
IndexOf(order, v) == CHOOSE i \in 1..Len(order) : order[i] = v

turn_left(d) ==
    LET order == <<"NORTH", "WEST", "SOUTH", "EAST">>
    IN  order[((IndexOf(order, d) - 1 + 1) % 4) + 1]

turn_right(d) ==
    LET order == <<"NORTH", "EAST", "SOUTH", "WEST">>
    IN  order[((IndexOf(order, d) - 1 + 1) % 4) + 1]

delta(d) ==
    CASE d = "NORTH" -> <<0, 1>>
      [] d = "EAST"  -> <<1, 0>>
      [] d = "SOUTH" -> <<0, -1>>
      [] d = "WEST"  -> <<-1, 0>>

Percept(creaking, rumbling, beacon, bump, beep) ==
    [creaking |-> creaking, rumbling |-> rumbling, beacon |-> beacon,
     bump |-> bump, beep |-> beep]

RobotState(x, y, direction) ==
    [x |-> x, y |-> y, direction |-> direction, has_package |-> FALSE,
     has_shutdown_device |-> TRUE, alive |-> TRUE]

InGrid(x, y, w, h) == ~(x < 1 \/ x > w \/ y < 1 \/ y > h)

Cells(w, h) == (1..w) \X (1..h)

(***************************************************************************)
(* HazardousWarehouseEnv helpers: they read a snapshot e of the fields, so *)
(* that a step can evaluate them on the fields as already assigned.        *)
(***************************************************************************)
\* _get_adjacent: the in-bounds candidates, in the list's order
env_get_adjacent(pos, w, h) ==
    LET x == pos[1]
        y == pos[2]
        candidates == <<(<<x - 1, y>>), (<<x + 1, y>>), (<<x, y - 1>>), (<<x, y + 1>>)>>
        keep(c) == 1 <= c[1] /\ c[1] <= w /\ 1 <= c[2] /\ c[2] <= h
    IN  SelectSeq(candidates, keep)

SeqRange(s) == {s[i] : i \in 1..Len(s)}

\* mutant of get_percept: a disabled forklift still rumbles
get_percept_rumbling_when_disabled(e, bump, beep) ==
    LET pos == <<e.robot.x, e.robot.y>>
        adjacent == SeqRange(env_get_adjacent(pos, e.width, e.height))
        creaking == \E adj \in adjacent : adj \in e.damaged
        rumbling == e.forklift \in adjacent
        beacon == pos = e.package /\ ~e.robot.has_package
    IN  Percept(creaking, rumbling, beacon, bump, beep)

get_percept(e, bump, beep) ==
    LET pos == <<e.robot.x, e.robot.y>>
        adjacent == SeqRange(env_get_adjacent(pos, e.width, e.height))
        creaking == \E adj \in adjacent : adj \in e.damaged
        rumbling == e.forklift_alive /\ e.forklift \in adjacent
        beacon == pos = e.package /\ ~e.robot.has_package
    IN  Percept(creaking, rumbling, beacon, bump, beep)

\* mutant of move_forward: a blocked move does not report the bump
move_forward_silent_block(e) ==
    LET d == delta(e.robot.direction)
        new_x == e.robot.x + d[1]
        new_y == e.robot.y + d[2]
    IN  IF new_x < 1 \/ new_x > e.width \/ new_y < 1 \/ new_y > e.height
        THEN <<FALSE, e.robot>>
        ELSE <<FALSE, [e.robot EXCEPT !.x = new_x, !.y = new_y]>>

\* mutant of move_forward: only the lower bounds are tested
move_forward_no_upper_bound(e) ==
    LET d == delta(e.robot.direction)
        new_x == e.robot.x + d[1]
        new_y == e.robot.y + d[2]
    IN  IF new_x < 1 \/ new_y < 1
        THEN <<TRUE, e.robot>>
        ELSE <<FALSE, [e.robot EXCEPT !.x = new_x, !.y = new_y]>>

\* _move_forward: <<bump, robot>>
move_forward(e) ==
    LET d == delta(e.robot.direction)
        new_x == e.robot.x + d[1]
        new_y == e.robot.y + d[2]
    IN  IF new_x < 1 \/ new_x > e.width \/ new_y < 1 \/ new_y > e.height
        THEN <<TRUE, e.robot>>
        ELSE <<FALSE, [e.robot EXCEPT !.x = new_x, !.y = new_y]>>

\* mutant of ray_hits: the ray stops after its first cell
ray_hits_first_cell(e, x, y, dx, dy) ==
    InGrid(x + dx, y + dy, e.width, e.height) /\ <<x + dx, y + dy>> = e.forklift

\* the while loop of _fire_shutdown, entered with the ray at <<x, y>>
RECURSIVE ray_hits(_, _, _, _, _)
ray_hits(e, x, y, dx, dy) ==
    LET nx == x + dx
        ny == y + dy
    IN  IF nx < 1 \/ nx > e.width \/ ny < 1 \/ ny > e.height
        THEN FALSE
        ELSE IF <<nx, ny>> = e.forklift
             THEN TRUE
             ELSE ray_hits(e, nx, ny, dx, dy)

\* mutant of fire_shutdown: a ray that misses disables the forklift too
fire_shutdown_always_disables(e) ==
    IF ~e.forklift_alive \/ e.forklift = "None"
    THEN <<FALSE, e.forklift_alive>>
    ELSE LET d == delta(e.robot.direction)
         IN  IF ray_hits(e, e.robot.x, e.robot.y, d[1], d[2])
             THEN <<TRUE, FALSE>>
             ELSE <<FALSE, FALSE>>

\* _fire_shutdown: <<beep, forklift_alive>>
fire_shutdown(e) ==
    IF ~e.forklift_alive \/ e.forklift = "None"
    THEN <<FALSE, e.forklift_alive>>
    ELSE LET d == delta(e.robot.direction)
         IN  IF ray_hits(e, e.robot.x, e.robot.y, d[1], d[2])
             THEN <<TRUE, FALSE>>
             ELSE <<FALSE, e.forklift_alive>>

\* the record _record_state appends
record_state(e, act) ==
    [step |-> e.steps,
     action |-> act,
     robot_x |-> e.robot.x,
     robot_y |-> e.robot.y,
     direction |-> e.robot.direction,
     has_package |-> e.robot.has_package,
     has_shutdown |-> e.robot.has_shutdown_device,
     alive |-> e.robot.alive,
     forklift_alive |-> e.forklift_alive,
     percept |-> e.last_percept,
     total_reward |-> e.total_reward]

\* the fields of the environment as one record
Env ==
    [width |-> width, height |-> height, num_damaged |-> num_damaged,
     damaged |-> damaged, forklift |-> forklift,
     forklift_alive |-> forklift_alive, package |-> package, robot |-> robot,
     steps |-> steps, total_reward |-> total_reward,
     last_percept |-> last_percept, terminated |-> terminated,
     success |-> success, history |-> history]

SetEnv(e) ==
    /\ width' = e.width
    /\ height' = e.height
    /\ num_damaged' = e.num_damaged
    /\ damaged' = e.damaged
    /\ forklift' = e.forklift
    /\ forklift_alive' = e.forklift_alive
    /\ package' = e.package
    /\ robot' = e.robot
    /\ steps' = e.steps
    /\ total_reward' = e.total_reward
    /\ last_percept' = e.last_percept
    /\ terminated' = e.terminated
    /\ success' = e.success
    /\ history' = e.history

(***************************************************************************)
(* reset(): random.shuffle of the non-start cells is a free choice of the  *)
(* damaged cells, the forklift's cell and the package's cell among them.   *)
(***************************************************************************)
all_positions(w, h) == {p \in Cells(w, h) : p # <<1, 1>>}

\* mutant of Layouts: the package may share the forklift's cell
Layouts_package_on_forklift(w, h, n) ==
    {l \in [damaged : SUBSET all_positions(w, h),
            forklift : all_positions(w, h),
            package : all_positions(w, h)] :
        /\ Cardinality(l.damaged) = n
        /\ l.forklift \notin l.damaged
        /\ l.package \notin l.damaged}

\* the layouts shuffle can produce: [damaged, forklift, package]
Layouts(w, h, n) ==
    {l \in [damaged : SUBSET all_positions(w, h),
            forklift : all_positions(w, h),
            package : all_positions(w, h)] :
        /\ Cardinality(l.damaged) = n
        /\ l.forklift \notin l.damaged
        /\ l.package \notin l.damaged
        /\ l.package # l.forklift}

\* the environment after reset() with layout l, and the percept it returns
reset_env(w, h, n, l) ==
    LET e0 == [width |-> w, height |-> h, num_damaged |-> n,
               damaged |-> l.damaged, forklift |-> l.forklift,
               forklift_alive |-> TRUE, package |-> l.package,
               robot |-> RobotState(1, 1, "EAST"),
               steps |-> 0, total_reward |-> 0,
               last_percept |-> Percept(FALSE, FALSE, FALSE, FALSE, FALSE),
               terminated |-> FALSE, success |-> FALSE, history |-> <<>>]
        e1 == [e0 EXCEPT !.last_percept = get_percept(e0, FALSE, FALSE)]
    IN  [e1 EXCEPT !.history = Append(e1.history, record_state(e1, "None"))]

Reset ==
    \E l \in Layouts(width, height, num_damaged) :
        LET e == reset_env(width, height, num_damaged, l)
        IN  /\ SetEnv(e)
            /\ ret' = [op |-> "reset", percept |-> e.last_percept]

(***************************************************************************)
(* step(action): <<environment, returned tuple>>                           *)
(***************************************************************************)
\* mutant of step_forward: the forklift kills whether alive or not
step_forward_disabled_forklift_kills(e) ==
    LET mv == move_forward(e)
        bump == mv[1]
        e1 == [e EXCEPT !.robot = mv[2]]
        pos == <<e1.robot.x, e1.robot.y>>
    IN  IF ~bump /\ e1.robot.alive /\ (pos \in e1.damaged \/ pos = e1.forklift)
        THEN [env |-> [e1 EXCEPT !.robot.alive = FALSE, !.terminated = TRUE],
              reward |-> -1000, bump |-> bump, beep |-> FALSE,
              info |-> [action |-> "FORWARD", death |-> "forklift"]]
        ELSE [env |-> e1, reward |-> -1, bump |-> bump, beep |-> FALSE,
              info |-> [action |-> "FORWARD"]]

step_forward(e) ==
    LET mv == move_forward(e)
        bump == mv[1]
        e1 == [e EXCEPT !.robot = mv[2]]
        pos == <<e1.robot.x, e1.robot.y>>
    IN  IF ~bump /\ e1.robot.alive
        THEN IF pos \in e1.damaged
             THEN [env |-> [e1 EXCEPT !.robot.alive = FALSE, !.terminated = TRUE],
                   reward |-> -1000, bump |-> bump, beep |-> FALSE,
                   info |-> [action |-> "FORWARD", death |-> "damaged_floor"]]
             ELSE IF pos = e1.forklift /\ e1.forklift_alive
                  THEN [env |-> [e1 EXCEPT !.robot.alive = FALSE, !.terminated = TRUE],
                        reward |-> -1000, bump |-> bump, beep |-> FALSE,
                        info |-> [action |-> "FORWARD", death |-> "forklift"]]
                  ELSE [env |-> e1, reward |-> -1, bump |-> bump, beep |-> FALSE,
                        info |-> [action |-> "FORWARD"]]
        ELSE [env |-> e1, reward |-> -1, bump |-> bump, beep |-> FALSE,
              info |-> [action |-> "FORWARD"]]

step_turn_left(e) ==
    [env |-> [e EXCEPT !.robot.direction = turn_left(e.robot.direction)],
     reward |-> -1, bump |-> FALSE, beep |-> FALSE,
     info |-> [action |-> "TURN_LEFT"]]

step_turn_right(e) ==
    [env |-> [e EXCEPT !.robot.direction = turn_right(e.robot.direction)],
     reward |-> -1, bump |-> FALSE, beep |-> FALSE,
     info |-> [action |-> "TURN_RIGHT"]]

\* mutant of step_grab: the package is grabbed again while carried
step_grab_while_carrying(e) ==
    LET pos == <<e.robot.x, e.robot.y>>
    IN  IF pos = e.package
        THEN [env |-> [e EXCEPT !.robot.has_package = TRUE],
              reward |-> -1, bump |-> FALSE, beep |-> FALSE,
              info |-> [action |-> "GRAB", grabbed |-> TRUE]]
        ELSE [env |-> e, reward |-> -1, bump |-> FALSE, beep |-> FALSE,
              info |-> [action |-> "GRAB", grabbed |-> FALSE]]

step_grab(e) ==
    LET pos == <<e.robot.x, e.robot.y>>
    IN  IF pos = e.package /\ ~e.robot.has_package
        THEN [env |-> [e EXCEPT !.robot.has_package = TRUE],
              reward |-> -1, bump |-> FALSE, beep |-> FALSE,
              info |-> [action |-> "GRAB", grabbed |-> TRUE]]
        ELSE [env |-> e, reward |-> -1, bump |-> FALSE, beep |-> FALSE,
              info |-> [action |-> "GRAB", grabbed |-> FALSE]]

\* mutant of step_shutdown: the device is not marked spent
step_shutdown_reusable(e) ==
    IF e.robot.has_shutdown_device
    THEN LET fs == fire_shutdown(e)
         IN  [env |-> [e EXCEPT !.forklift_alive = fs[2]],
              reward |-> -1 - 9, bump |-> FALSE, beep |-> fs[1],
              info |-> [action |-> "SHUTDOWN", shutdown_success |-> fs[1]]]
    ELSE [env |-> e, reward |-> -1, bump |-> FALSE, beep |-> FALSE,
          info |-> [action |-> "SHUTDOWN", shutdown_success |-> FALSE,
                    error |-> "No shutdown device"]]

step_shutdown(e) ==
    IF e.robot.has_shutdown_device
    THEN LET e1 == [e EXCEPT !.robot.has_shutdown_device = FALSE]
             fs == fire_shutdown(e1)
         IN  [env |-> [e1 EXCEPT !.forklift_alive = fs[2]],
              reward |-> -1 - 9, bump |-> FALSE, beep |-> fs[1],
              info |-> [action |-> "SHUTDOWN", shutdown_success |-> fs[1]]]
    ELSE [env |-> e, reward |-> -1, bump |-> FALSE, beep |-> FALSE,
          info |-> [action |-> "SHUTDOWN", shutdown_success |-> FALSE,
                    error |-> "No shutdown device"]]

\* mutant of step_exit: the exit is taken from any cell
step_exit_anywhere(e) ==
    IF e.robot.has_package
    THEN [env |-> [e EXCEPT !.terminated = TRUE, !.success = TRUE],
          reward |-> 1000, bump |-> FALSE, beep |-> FALSE,
          info |-> [action |-> "EXIT", exit |-> "success"]]
    ELSE [env |-> [e EXCEPT !.terminated = TRUE],
          reward |-> -1, bump |-> FALSE, beep |-> FALSE,
          info |-> [action |-> "EXIT", exit |-> "no_package"]]

step_exit(e) ==
    LET pos == <<e.robot.x, e.robot.y>>
    IN  IF pos = <<1, 1>>
        THEN IF e.robot.has_package
             THEN [env |-> [e EXCEPT !.terminated = TRUE, !.success = TRUE],
                   reward |-> 1000, bump |-> FALSE, beep |-> FALSE,
                   info |-> [action |-> "EXIT", exit |-> "success"]]
             ELSE [env |-> [e EXCEPT !.terminated = TRUE],
                   reward |-> -1, bump |-> FALSE, beep |-> FALSE,
                   info |-> [action |-> "EXIT", exit |-> "no_package"]]
        ELSE [env |-> e, reward |-> -1, bump |-> FALSE, beep |-> FALSE,
              info |-> [action |-> "EXIT", exit |-> "wrong_location"]]

\* lines 136-186: the branch of the action
step_branch(e, a) ==
    CASE a = "FORWARD"    -> step_forward(e)
      [] a = "TURN_LEFT"  -> step_turn_left(e)
      [] a = "TURN_RIGHT" -> step_turn_right(e)
      [] a = "GRAB"       -> step_grab(e)
      [] a = "SHUTDOWN"   -> step_shutdown(e)
      [] a = "EXIT"       -> step_exit(e)

\* mutant of step_finish: the record is taken before the percept is stored
step_finish_record_before_percept(b, a) ==
    LET e1 == [b.env EXCEPT !.steps = @ + 1, !.total_reward = @ + b.reward]
        p == IF e1.robot.alive
             THEN get_percept(e1, b.bump, b.beep)
             ELSE Percept(FALSE, FALSE, FALSE, b.bump, b.beep)
        e2 == [e1 EXCEPT !.history = Append(e1.history, record_state(e1, a))]
        e3 == [e2 EXCEPT !.last_percept = p]
    IN  [env |-> e3,
         ret |-> [op |-> "step", percept |-> p, reward |-> b.reward,
                  done |-> e3.terminated, info |-> b.info]]

\* lines 188-197: the accounting, the percept and the log record
step_finish(b, a) ==
    LET e1 == [b.env EXCEPT !.steps = @ + 1, !.total_reward = @ + b.reward]
        p == IF e1.robot.alive
             THEN get_percept(e1, b.bump, b.beep)
             ELSE Percept(FALSE, FALSE, FALSE, b.bump, b.beep)
        e2 == [e1 EXCEPT !.last_percept = p]
        e3 == [e2 EXCEPT !.history = Append(e2.history, record_state(e2, a))]
    IN  [env |-> e3,
         ret |-> [op |-> "step", percept |-> p, reward |-> b.reward,
                  done |-> e3.terminated, info |-> b.info]]

\* mutant of step: no early return on a terminated episode
step_on_terminated(e, a) == step_finish(step_branch(e, a), a)

step(e, a) ==
    IF e.terminated
    THEN [env |-> e,
          ret |-> [op |-> "step", percept |-> e.last_percept, reward |-> 0,
                   done |-> TRUE,
                   info |-> [error |-> "Episode already terminated"]]]
    ELSE step_finish(step_branch(e, a), a)

(***************************************************************************)
(* The environment driven by any caller: any action at any time, reset()   *)
(* at any time.                                                            *)
(***************************************************************************)
GridOk(w, h, n) == w * h - 1 >= n + 2

\* the fields and the returned percept after construction (__post_init__
\* calls reset()) with layout l
EnvIs(e) ==
    /\ width = e.width
    /\ height = e.height
    /\ num_damaged = e.num_damaged
    /\ damaged = e.damaged
    /\ forklift = e.forklift
    /\ forklift_alive = e.forklift_alive
    /\ package = e.package
    /\ robot = e.robot
    /\ steps = e.steps
    /\ total_reward = e.total_reward
    /\ last_percept = e.last_percept
    /\ terminated = e.terminated
    /\ success = e.success
    /\ history = e.history
    /\ ret = [op |-> "reset", percept |-> e.last_percept]

InitEnv ==
    \E w \in 1..MaxWidth, h \in 1..MaxHeight, n \in 0..MaxDamaged :
        /\ GridOk(w, h, n)
        /\ w * h <= MaxCells
        /\ \E l \in Layouts(w, h, n) : EnvIs(reset_env(w, h, n, l))

NoAgent ==
    /\ solver = "None"
    /\ agent = "None"
    /\ pc = "none"
    /\ percept = "None"
    /\ action = "None"

Init == InitEnv /\ NoAgent

Step(a) ==
    LET r == step(Env, a)
    IN  /\ SetEnv(r.env)
        /\ ret' = r.ret

EnvReset == Reset /\ UNCHANGED agentVars

EnvStep ==
    \E a \in Action :
        /\ steps < MaxSteps
        /\ Step(a)
        /\ UNCHANGED agentVars

Next == EnvReset \/ EnvStep

Spec == Init /\ [][Next]_vars

(***************************************************************************)
(* Properties of the environment, checked under Spec.                      *)
(***************************************************************************)
\* this transition is a call of step() (with some action)
StepTaken == \E a \in Action : Step(a)

\* the cell a FORWARD from the current state aims at
Target == <<robot.x + delta(robot.direction)[1],
            robot.y + delta(robot.direction)[2]>>

TargetInBounds ==
    /\ 1 <= Target[1] /\ Target[1] <= width
    /\ 1 <= Target[2] /\ Target[2] <= height

WorldUnchanged ==
    UNCHANGED <<width, height, num_damaged, damaged, forklift, forklift_alive,
                package>>

\* C1: once the episode is terminated, every step(action) returns the
\* percept the terminating step returned, reward 0, done=true and an info
\* with an error entry, and changes no field of the environment: robot,
\* step count, cumulative reward, log.
C1_TerminatedStepIsNoOp ==
    [][(terminated /\ StepTaken) =>
          /\ ret'.percept = ret.percept
          /\ ret'.percept = history[Len(history)].percept
          /\ ret'.reward = 0
          /\ ret'.done = TRUE
          /\ "error" \in DOMAIN ret'.info
          /\ UNCHANGED envVars]_vars

\* a step was called on an episode that a death had terminated
C1_Witness ==
    /\ terminated
    /\ ~robot.alive
    /\ ret.op = "step"
    /\ "error" \in DOMAIN ret.info

\* the reward delta C2 names for the step just taken
C2_Delta ==
    LET i == ret'.info
    IN  IF "death" \in DOMAIN i
        THEN -1000
        ELSE IF "exit" \in DOMAIN i /\ i.exit = "success"
        THEN 1000
        ELSE IF i.action = "SHUTDOWN" /\ robot.has_shutdown_device
        THEN -9
        ELSE 0

\* C2: on an active episode the step cost -1 is applied once and added to
\* the action's own delta (-1000 on a fatal FORWARD, +1000 on a successful
\* EXIT, -9 on a SHUTDOWN that spends the device, 0 otherwise): the reward
\* returned is -1 plus the delta, and the cumulative reward grows by it.
C2_StepCostAdded ==
    [][(~terminated /\ StepTaken) =>
          /\ ret'.reward = -1 + C2_Delta
          /\ total_reward' = total_reward + ret'.reward]_vars

\* C3: a FORWARD on an active episode whose target is in bounds terminates
\* the episode iff the target is damaged floor or the cell of the live
\* forklift; then the robot is dead, done is true and the reward is the
\* large negative one; otherwise (also into a disabled forklift's cell)
\* the robot stays alive and the episode active.
C3_ForwardFatalIffHazard ==
    [][(~terminated /\ TargetInBounds /\ Step("FORWARD")) =>
          LET fatal == \/ Target \in damaged
                       \/ (Target = forklift /\ forklift_alive)
          IN  /\ <<robot'.x, robot'.y>> = Target
              /\ terminated' <=> fatal
              /\ fatal => /\ ~robot'.alive
                          /\ ret'.done
                          /\ ret'.reward = -1000
                          /\ ~success'
              /\ ~fatal => /\ robot'.alive
                           /\ ~ret'.done]_vars

\* the robot has entered the cell of the disabled forklift and lives
C3_Witness ==
    /\ ~forklift_alive
    /\ <<robot.x, robot.y>> = forklift
    /\ robot.alive
    /\ ~terminated
    /\ ret.op = "step"
    /\ ret.info.action = "FORWARD"

\* C4: an EXIT on an active episode terminates it iff the robot is at
\* (1,1); then it is a success with the large positive reward iff the robot
\* carries the package, and without the package exit='no_package' with no
\* bonus; elsewhere the episode stays active, no robot or world state
\* changes, and exit='wrong_location'.
C4_ExitOnlyAtStart ==
    [][(~terminated /\ Step("EXIT")) =>
          LET at_start == <<robot.x, robot.y>> = <<1, 1>>
          IN  /\ terminated' <=> at_start
              /\ ret'.done <=> at_start
              /\ robot' = robot
              /\ WorldUnchanged
              /\ (at_start /\ robot.has_package) =>
                    /\ success'
                    /\ ret'.reward = 1000
                    /\ ret'.info.exit = "success"
              /\ (at_start /\ ~robot.has_package) =>
                    /\ ~success'
                    /\ ret'.reward = -1
                    /\ ret'.info.exit = "no_package"
              /\ ~at_start =>
                    /\ ~success'
                    /\ ret'.reward = -1
                    /\ ret'.info.exit = "wrong_location"]_vars

\* an EXIT at the start cell with the package ended the episode in success
C4_Witness ==
    /\ terminated
    /\ success
    /\ ret.op = "step"
    /\ "exit" \in DOMAIN ret.info
    /\ ret.info.exit = "success"
    /\ ret.reward = 1000

\* the forklift's cell lies strictly ahead of the robot, on the line from
\* its cell in its facing direction
ForkliftAhead ==
    \E k \in 1..(width + height) :
        <<robot.x + k * delta(robot.direction)[1],
          robot.y + k * delta(robot.direction)[2]>> = forklift

\* C5: a SHUTDOWN with the device available disables the forklift and
\* returns beep=true iff the forklift is alive and its cell lies strictly
\* ahead of the robot in its facing direction; otherwise the forklift-alive
\* flag is unchanged and beep=false.
C5_RayHitsIffAhead ==
    [][(~terminated /\ robot.has_shutdown_device /\ Step("SHUTDOWN")) =>
          LET hit == forklift_alive /\ ForkliftAhead
          IN  /\ ret'.percept.beep <=> hit
              /\ ret'.info.shutdown_success <=> hit
              /\ hit => ~forklift_alive'
              /\ ~hit => forklift_alive' = forklift_alive]_vars

\* the ray disabled a forklift that was not next to the robot
C5_Witness ==
    /\ ret.op = "step"
    /\ ret.percept.beep
    /\ ~forklift_alive
    /\ \/ forklift[1] - robot.x >= 2
       \/ robot.x - forklift[1] >= 2
       \/ forklift[2] - robot.y >= 2
       \/ robot.y - forklift[2] >= 2

\* the 4-neighbours of the robot's cell that are in the grid
RobotNeighbours ==
    {c \in Cells(width, height) :
        \/ (c[1] = robot.x /\ (c[2] = robot.y + 1 \/ c[2] = robot.y - 1))
        \/ (c[2] = robot.y /\ (c[1] = robot.x + 1 \/ c[1] = robot.x - 1))}

\* the last call was reset() or a step() on an episode then active
ActiveCall == ret.op = "reset" \/ "action" \in DOMAIN ret.info

\* the last step was a FORWARD that a boundary blocked: the robot is where
\* the log's previous record has it
LastForwardBlocked ==
    /\ ret.op = "step"
    /\ ret.info.action = "FORWARD"
    /\ history[Len(history)].robot_x = history[Len(history) - 1].robot_x
    /\ history[Len(history)].robot_y = history[Len(history) - 1].robot_y

LastShutdownHit ==
    /\ ret.op = "step"
    /\ "shutdown_success" \in DOMAIN ret.info
    /\ ret.info.shutdown_success

\* C6: after reset and after every step of an active episode the percept
\* returned is the one derived from the true state then: creaking iff a
\* neighbour is damaged, rumbling iff the forklift is alive and on a
\* neighbour, beacon iff the robot is on the package's cell and not
\* carrying, bump and beep as the action produced them; and creaking,
\* rumbling and beacon are false when the robot has died.
C6_PerceptIsDerivedFromState ==
    ActiveCall =>
        /\ ret.percept = last_percept
        /\ ret.percept = history[Len(history)].percept
        /\ ret.percept.bump <=> LastForwardBlocked
        /\ ret.percept.beep <=> LastShutdownHit
        /\ robot.alive =>
              /\ ret.percept.creaking <=> (RobotNeighbours \cap damaged # {})
              /\ ret.percept.rumbling <=>
                    (forklift_alive /\ forklift \in RobotNeighbours)
              /\ ret.percept.beacon <=>
                    (<<robot.x, robot.y>> = package /\ ~robot.has_package)
        /\ ~robot.alive =>
              /\ ~ret.percept.creaking
              /\ ~ret.percept.rumbling
              /\ ~ret.percept.beacon

\* the robot stands next to the forklift it has disabled and hears nothing
C6_Witness ==
    /\ ActiveCall
    /\ robot.alive
    /\ ~forklift_alive
    /\ forklift \in RobotNeighbours
    /\ ~ret.percept.rumbling
    /\ steps >= 2


\* this transition is a step() with action a on an episode then active
ActiveStep(a) == ~terminated /\ Step(a)

\* C11: the disable device is single-use per episode: a SHUTDOWN step with
\* the device marks it spent whether or not the ray hits; no step makes
\* the device available again; a SHUTDOWN step without the device casts no
\* ray (forklift-alive flag unchanged, beep=false, shutdown_success=false),
\* reports an error in info, costs only the step cost and leaves the
\* episode active.
C11_DeviceSingleUse ==
    [][/\ (ActiveStep("SHUTDOWN") /\ robot.has_shutdown_device) =>
              ~robot'.has_shutdown_device
       /\ (StepTaken /\ ~robot.has_shutdown_device) =>
              ~robot'.has_shutdown_device
       /\ (ActiveStep("SHUTDOWN") /\ ~robot.has_shutdown_device) =>
              /\ forklift_alive' = forklift_alive
              /\ ~ret'.percept.beep
              /\ ~ret'.info.shutdown_success
              /\ "error" \in DOMAIN ret'.info
              /\ ret'.reward = -1
              /\ total_reward' = total_reward - 1
              /\ ~terminated'
              /\ ~ret'.done
              /\ robot' = robot]_vars

\* a second SHUTDOWN, facing the live forklift the first one missed, was
\* refused
C11_Witness ==
    /\ ret.op = "step"
    /\ "action" \in DOMAIN ret.info
    /\ ret.info.action = "SHUTDOWN"
    /\ "error" \in DOMAIN ret.info
    /\ ~robot.has_shutdown_device
    /\ forklift_alive
    /\ ForkliftAhead
    /\ ~terminated

\* C12: a GRAB step sets carrying and reports grabbed=true iff the robot is
\* on the package's cell and not carrying; otherwise it reports
\* grabbed=false, no error, and changes no robot or world state; once the
\* robot carries the package it carries it after every step, and the percept
\* of every step from the grab on has beacon=false.
C12_GrabOnlyOnPackage ==
    [][/\ ActiveStep("GRAB") =>
              LET ok == <<robot.x, robot.y>> = package /\ ~robot.has_package
              IN  /\ ret'.info.grabbed <=> ok
                  /\ ok => /\ robot' = [robot EXCEPT !.has_package = TRUE]
                           /\ ~ret'.percept.beacon
                  /\ ~ok => robot' = robot
                  /\ "error" \notin DOMAIN ret'.info
                  /\ WorldUnchanged
                  /\ ~terminated'
       /\ (StepTaken /\ robot.has_package) =>
              /\ robot'.has_package
              /\ ~ret'.percept.beacon
              /\ ~last_percept'.beacon]_vars

\* a GRAB on the package's cell by a robot that carries it already
C12_Witness ==
    /\ ret.op = "step"
    /\ "action" \in DOMAIN ret.info
    /\ ret.info.action = "GRAB"
    /\ ~ret.info.grabbed
    /\ robot.has_package
    /\ <<robot.x, robot.y>> = package
    /\ ~ret.percept.beacon

\* C13: the bump bit of a step's percept is true iff the action was FORWARD
\* and the target cell is outside the grid; then position and direction are
\* unchanged, the reward is the step cost, the robot is not killed and the
\* episode stays active.
C13_BumpIffBlockedForward ==
    [][\A a \in Action : ActiveStep(a) =>
          LET blocked == a = "FORWARD" /\ ~TargetInBounds
          IN  /\ ret'.percept.bump <=> blocked
              /\ blocked => /\ robot' = robot
                            /\ ret'.reward = -1
                            /\ total_reward' = total_reward - 1
                            /\ "death" \notin DOMAIN ret'.info
                            /\ ~terminated'
                            /\ ~ret'.done]_vars

\* a FORWARD was blocked by the far boundary, away from the start cell
C13_Witness ==
    /\ ret.op = "step"
    /\ ret.percept.bump
    /\ "action" \in DOMAIN ret.info
    /\ ret.info.action = "FORWARD"
    /\ robot.alive
    /\ ~terminated
    /\ (robot.x = width \/ robot.y = height)
    /\ <<robot.x, robot.y>> # <<1, 1>>

\* the state reset() leaves
FreshEpisode ==
    /\ damaged \subseteq Cells(width, height)
    /\ Cardinality(damaged) = num_damaged
    /\ forklift \in Cells(width, height)
    /\ package \in Cells(width, height)
    /\ forklift \notin damaged
    /\ package \notin damaged
    /\ forklift # package
    /\ <<1, 1>> \notin damaged \cup {forklift, package}
    /\ robot.x = 1 /\ robot.y = 1 /\ robot.direction = "EAST"
    /\ robot.alive
    /\ ~robot.has_package
    /\ robot.has_shutdown_device
    /\ forklift_alive
    /\ steps = 0
    /\ total_reward = 0
    /\ ~terminated
    /\ ~success
    /\ Len(history) = 1

\* C14: after every reset(), from any state, the layout has exactly
\* num_damaged damaged cells, a forklift cell and a package cell that differ
\* from each other, are not damaged and are not the start cell; the robot
\* is at (1,1) facing EAST, alive, not carrying, with the device; the
\* forklift is alive; step count and cumulative reward are 0; the episode is
\* active; the log holds one record.
C14_ResetGivesFreshEpisode ==
    [][ret'.op = "reset" => FreshEpisode']_vars

\* a fresh episode on a layout with damaged cells
C14_Witness ==
    /\ ret.op = "reset"
    /\ FreshEpisode
    /\ num_damaged >= 1
    /\ Len(history) = 1
    /\ history[1].action = "None"

\* the record of the state as it is after the transition
RecordOfNextState(a) ==
    [step |-> steps', action |-> a, robot_x |-> robot'.x,
     robot_y |-> robot'.y, direction |-> robot'.direction,
     has_package |-> robot'.has_package,
     has_shutdown |-> robot'.has_shutdown_device, alive |-> robot'.alive,
     forklift_alive |-> forklift_alive', percept |-> ret'.percept,
     total_reward |-> total_reward']

\* C15: the log is append-only: a step on an active episode appends one
\* record, equal to the state just reached (position, direction, flags,
\* forklift-alive flag, the percept just returned, cumulative reward), and
\* changes no earlier record; a step on a terminated episode leaves the log
\* alone; and the log's length is the step count plus one in every state.
C15_LogAppendOnly ==
    [][/\ \A a \in Action : ActiveStep(a) =>
              /\ Len(history') = Len(history) + 1
              /\ SubSeq(history', 1, Len(history)) = history
              /\ history'[Len(history')] = RecordOfNextState(a)
              /\ steps' = steps + 1
       /\ (terminated /\ StepTaken) => history' = history
       /\ Len(history) = steps + 1
       /\ Len(history') = steps' + 1]_vars

\* a log of four records whose last three differ
C15_Witness ==
    /\ Len(history) = 4
    /\ steps = 3
    /\ history[2].percept # history[3].percept
    /\ history[3].percept # history[4].percept
    /\ <<history[2].robot_x, history[2].robot_y>> # <<1, 1>>
    /\ history[4].total_reward = total_reward

\* C16: in every reachable state the robot's position is in the grid, and a
\* dead robot means a terminated episode that is not a success.
C16_PositionInGridDeadIsTerminal ==
    /\ 1 <= robot.x /\ robot.x <= width
    /\ 1 <= robot.y /\ robot.y <= height
    /\ ~robot.alive => (terminated /\ ~success)

\* the robot died in the far corner of the grid, or was blocked there
C16_Witness ==
    /\ robot.x = width
    /\ robot.y = height
    /\ steps >= 2
    /\ \/ ~robot.alive /\ terminated
       \/ ret.percept.bump

\* C17: within an episode the forklift-alive flag changes only from true to
\* false and only by a SHUTDOWN step whose ray hits; a disabled forklift
\* stays disabled after every step, the percept of every later step has
\* rumbling=false, and a FORWARD into its cell does not kill the robot.
C17_ForkliftDisabledForGood ==
    [][/\ (StepTaken /\ forklift_alive' # forklift_alive) =>
              /\ forklift_alive
              /\ ~forklift_alive'
              /\ ActiveStep("SHUTDOWN")
              /\ robot.has_shutdown_device
              /\ ForkliftAhead
              /\ ret'.info.shutdown_success
       /\ (StepTaken /\ ~forklift_alive) =>
              /\ ~forklift_alive'
              /\ ~ret'.percept.rumbling
       /\ (ActiveStep("FORWARD") /\ ~forklift_alive /\ Target = forklift) =>
              /\ robot'.alive
              /\ ~terminated'
              /\ <<robot'.x, robot'.y>> = forklift]_vars

\* the robot has turned on the cell of the forklift it disabled
C17_Witness ==
    /\ ~forklift_alive
    /\ <<robot.x, robot.y>> = forklift
    /\ robot.alive
    /\ ret.op = "step"
    /\ "action" \in DOMAIN ret.info
    /\ ret.info.action = "TURN_LEFT"
    /\ ~ret.percept.rumbling

(***************************************************************************)
(* The knowledge base.  The solver holds the axioms of                     *)
(* build_warehouse_kb(width, height) and the literals told since: a fact   *)
(* [var, x, y, val] is creaking_at(x, y) (var "C") or rumbling_at(x, y)    *)
(* (var "R"), asserted when val and negated when not.                      *)
(*                                                                         *)
(* The axioms define every C, R and OK variable from the D and F           *)
(* variables, so an interpretation is a pair: the set D of cells whose     *)
(* damaged() variable is true and the set F of cells whose forklift_at()   *)
(* variable is true.  No axiom or fact mentions both a D and an F          *)
(* variable, so the models are the pairs of a D that satisfies the facts   *)
(* on C and an F that satisfies the facts on R.                            *)
(***************************************************************************)
get_adjacent(x, y, w, h) ==
    LET ds == <<(<<-1, 0>>), (<<1, 0>>), (<<0, -1>>), (<<0, 1>>)>>
        nb == [i \in 1..4 |-> <<x + ds[i][1], y + ds[i][2]>>]
        keep(c) == 1 <= c[1] /\ c[1] <= w /\ 1 <= c[2] /\ c[2] <= h
    IN  SelectSeq(nb, keep)

build_warehouse_kb(w, h) == [width |-> w, height |-> h, facts |-> {}]

solver_add(s, var, x, y, val) ==
    [s EXCEPT !.facts = @ \cup {[var |-> var, x |-> x, y |-> y, val |-> val]}]

\* the sets of cells that interpret the variables of one kind (D for var
\* "C", F for var "R") and satisfy the axioms and the facts on var.  A cell
\* next to a cell told quiet is in none of them, nor is the start cell, so
\* only the subsets of the other cells are tried.
var_models(s, var) ==
    LET told == {f \in s.facts : f.var = var}
        adj(f) == SeqRange(get_adjacent(f.x, f.y, s.width, s.height))
        quiet == UNION {adj(f) : f \in {g \in told : ~g.val}}
        free == (Cells(s.width, s.height) \ {<<1, 1>>}) \ quiet
    IN  {S \in SUBSET free :
            \A f \in told : f.val <=> (\E a \in adj(f) : a \in S)}

kb_models(s) == [D |-> var_models(s, "C"), F |-> var_models(s, "R")]

\* solver.check() == unsat on the knowledge base itself
kb_unsat(m) == m.D = {} \/ m.F = {}

\* z3_entails(solver, query): no model of the knowledge base falsifies query
z3_entails(m, query) ==
    CASE query.q = "safe" ->
            \/ kb_unsat(m)
            \/ /\ \A D \in m.D : query.pos \notin D
               /\ \A F \in m.F : query.pos \notin F
      [] query.q = "not_safe" ->
            \/ kb_unsat(m)
            \/ \A D \in m.D : query.pos \in D
            \/ \A F \in m.F : query.pos \in F
      [] query.q = "forklift_at" ->
            \/ kb_unsat(m)
            \/ \A F \in m.F : query.pos \in F

safe(x, y) == [q |-> "safe", pos |-> <<x, y>>]
not_safe(x, y) == [q |-> "not_safe", pos |-> <<x, y>>]
forklift_at(x, y) == [q |-> "forklift_at", pos |-> <<x, y>>]

(***************************************************************************)
(* WarehouseKBAgent                                                        *)
(***************************************************************************)
DIRECTION_ORDER == <<"NORTH", "EAST", "SOUTH", "WEST">>

direction_index(d) == IndexOf(DIRECTION_ORDER, d) - 1

Repeat(a, n) == [i \in 1..n |-> a]

\* mutant of turns_between: the turns are always to the right
turns_between_right_only(current, target) ==
    IF current = target
    THEN <<>>
    ELSE LET ci == direction_index(current)
             ti == direction_index(target)
             right_steps == (ti - ci) % 4
         IN  Repeat("TURN_RIGHT", right_steps)

turns_between(current, target) ==
    IF current = target
    THEN <<>>
    ELSE LET ci == direction_index(current)
             ti == direction_index(target)
             right_steps == (ti - ci) % 4
             left_steps == (ci - ti) % 4
         IN  IF right_steps <= left_steps
             THEN Repeat("TURN_RIGHT", right_steps)
             ELSE Repeat("TURN_LEFT", left_steps)

delta_to_direction(dx, dy) ==
    CASE <<dx, dy>> = <<0, 1>>  -> "NORTH"
      [] <<dx, dy>> = <<0, -1>> -> "SOUTH"
      [] <<dx, dy>> = <<1, 0>>  -> "EAST"
      [] <<dx, dy>> = <<-1, 0>> -> "WEST"

\* mutant of agent_init: the start cell is not put in known_safe
agent_init_start_unclassified ==
    [x |-> 1, y |-> 1, direction |-> "EAST", has_package |-> FALSE,
     visited |-> {<<1, 1>>}, known_safe |-> {},
     known_dangerous |-> {}, action_queue |-> <<>>, step_count |-> 0,
     forklift_disabled |-> FALSE]

\* __init__: the fields other than env and solver
agent_init ==
    [x |-> 1, y |-> 1, direction |-> "EAST", has_package |-> FALSE,
     visited |-> {<<1, 1>>}, known_safe |-> {<<1, 1>>},
     known_dangerous |-> {}, action_queue |-> <<>>, step_count |-> 0,
     forklift_disabled |-> FALSE]

\* tell_percepts: <<solver, agent>>
tell_percepts(s, ag, p) ==
    LET s1 == solver_add(s, "C", ag.x, ag.y, p.creaking)
        s2 == solver_add(s1, "R", ag.x, ag.y, p.rumbling)
    IN  <<s2, IF p.beep THEN [ag EXCEPT !.forklift_disabled = TRUE] ELSE ag>>

\* mutant of update_safety: the second query is an if, not an elif, and a
\* classified cell is not skipped
update_safety_both_queries(s, ag) ==
    LET m == kb_models(s)
        cells == Cells(s.width, s.height)
        newsafe == {pos \in cells : z3_entails(m, safe(pos[1], pos[2]))}
        newdanger == {pos \in cells : z3_entails(m, not_safe(pos[1], pos[2]))}
    IN  [ag EXCEPT !.known_safe = @ \cup newsafe,
                   !.known_dangerous = @ \cup newdanger]

\* update_safety: a cell's classification reads only the solver and the
\* cell's own membership, so the double loop is one pass over the cells
update_safety(s, ag) ==
    LET m == kb_models(s)
        open == {pos \in Cells(s.width, s.height) :
                    ~(pos \in ag.known_safe \/ pos \in ag.known_dangerous)}
        newsafe == {pos \in open : z3_entails(m, safe(pos[1], pos[2]))}
        newdanger == {pos \in open \ newsafe :
                        z3_entails(m, not_safe(pos[1], pos[2]))}
    IN  [ag EXCEPT !.known_safe = @ \cup newsafe,
                   !.known_dangerous = @ \cup newdanger]

entailed_forklift_positions(s) ==
    LET m == kb_models(s)
    IN  {pos \in Cells(s.width, s.height) :
            z3_entails(m, forklift_at(pos[1], pos[2]))}

\* mutant of line_of_sight: an entailed cell in the agent's row or column
\* counts, whatever the facing direction
line_of_sight_any_direction(x, y, dx, dy, entailed, w, h) ==
    \E c \in entailed : (c[1] = x \/ c[2] = y) /\ c # <<x, y>>

\* the while loop of _forklift_in_line_of_sight, entered at <<x, y>>
RECURSIVE line_of_sight(_, _, _, _, _, _, _)
line_of_sight(x, y, dx, dy, entailed, w, h) ==
    LET nx == x + dx
        ny == y + dy
    IN  IF nx < 1 \/ nx > w \/ ny < 1 \/ ny > h
        THEN FALSE
        ELSE IF <<nx, ny>> \in entailed
             THEN TRUE
             ELSE line_of_sight(nx, ny, dx, dy, entailed, w, h)

\* mutant of forklift_in_line_of_sight: the environment's device flag is
\* not consulted
forklift_in_line_of_sight_ignores_device(s, ag, e) ==
    IF ag.forklift_disabled
    THEN FALSE
    ELSE LET d == delta(ag.direction)
             entailed == entailed_forklift_positions(s)
         IN  IF entailed = {}
             THEN FALSE
             ELSE line_of_sight(ag.x, ag.y, d[1], d[2], entailed,
                                e.width, e.height)

forklift_in_line_of_sight(s, ag, e) ==
    IF ag.forklift_disabled \/ ~e.robot.has_shutdown_device
    THEN FALSE
    ELSE LET d == delta(ag.direction)
             entailed == entailed_forklift_positions(s)
         IN  IF entailed = {}
             THEN FALSE
             ELSE line_of_sight(ag.x, ag.y, d[1], d[2], entailed,
                                e.width, e.height)

\* mutant of plan_expand: a neighbour is queued whether known safe or not
RECURSIVE plan_expand_through_unknown(_, _, _, _, _, _)
plan_expand_through_unknown(nb, i, path, queue, seen, known_safe) ==
    IF i > Len(nb)
    THEN [queue |-> queue, seen |-> seen]
    ELSE IF nb[i] \notin seen
         THEN plan_expand_through_unknown(nb, i + 1, path,
                          Append(queue, Append(path, nb[i])),
                          seen \cup {nb[i]}, known_safe)
         ELSE plan_expand_through_unknown(nb, i + 1, path, queue, seen,
                                          known_safe)

\* the for loop of plan_path over the neighbours nb[i..] of the cell that
\* ends path: [queue, seen]
RECURSIVE plan_expand(_, _, _, _, _, _)
plan_expand(nb, i, path, queue, seen, known_safe) ==
    IF i > Len(nb)
    THEN [queue |-> queue, seen |-> seen]
    ELSE IF nb[i] \notin seen /\ nb[i] \in known_safe
         THEN plan_expand(nb, i + 1, path, Append(queue, Append(path, nb[i])),
                          seen \cup {nb[i]}, known_safe)
         ELSE plan_expand(nb, i + 1, path, queue, seen, known_safe)

\* the while loop of plan_path; a queue entry is its path, whose last cell
\* is the entry's cell; None is <<>>
RECURSIVE plan_loop(_, _, _, _, _, _)
plan_loop(queue, seen, goal_set, known_safe, w, h) ==
    IF queue = <<>>
    THEN <<>>
    ELSE LET path == Head(queue)
             c == path[Len(path)]
         IN  IF c \in goal_set
             THEN path
             ELSE LET r == plan_expand(get_adjacent(c[1], c[2], w, h), 1, path,
                                       Tail(queue), seen, known_safe)
                  IN  plan_loop(r.queue, r.seen, goal_set, known_safe, w, h)

plan_path(start, goal_set, known_safe, w, h) ==
    plan_loop(<<(<<start>>)>>, {start}, goal_set, known_safe, w, h)

\* path_to_actions: the actions (the final direction is not used)
RECURSIVE path_to_actions_from(_, _, _)
path_to_actions_from(path, i, direction) ==
    IF i > Len(path)
    THEN <<>>
    ELSE LET dx == path[i][1] - path[i - 1][1]
             dy == path[i][2] - path[i - 1][2]
             target_dir == delta_to_direction(dx, dy)
         IN  turns_between(direction, target_dir) \o <<"FORWARD">>
                \o path_to_actions_from(path, i + 1, target_dir)

path_to_actions(ag, path) == path_to_actions_from(path, 2, ag.direction)

\* mutant of choose_action: with nothing left to explore the agent exits
\* where it stands
choose_action_exit_in_place(s, ag, e, p) ==
    LET here == <<ag.x, ag.y>>
        home == plan_path(here, {<<1, 1>>}, ag.known_safe, e.width, e.height)
        home_actions == path_to_actions(ag, home)
        safe_unvisited == ag.known_safe \ ag.visited
        explore == plan_path(here, safe_unvisited, ag.known_safe,
                             e.width, e.height)
        explore_actions == path_to_actions(ag, explore)
    IN  IF ag.action_queue # <<>>
        THEN [action |-> Head(ag.action_queue),
              agent |-> [ag EXCEPT !.action_queue = Tail(@)]]
        ELSE IF forklift_in_line_of_sight(s, ag, e)
        THEN [action |-> "SHUTDOWN", agent |-> ag]
        ELSE IF p.beacon /\ ~ag.has_package
        THEN [action |-> "GRAB", agent |-> ag]
        ELSE IF ag.has_package
        THEN IF here = <<1, 1>>
             THEN [action |-> "EXIT", agent |-> ag]
             ELSE IF Len(home) > 1
             THEN [action |-> home_actions[1],
                   agent |-> [ag EXCEPT !.action_queue = Tail(home_actions)]]
             ELSE [action |-> "EXIT", agent |-> ag]
        ELSE IF safe_unvisited # {} /\ Len(explore) > 1
        THEN [action |-> explore_actions[1],
              agent |-> [ag EXCEPT !.action_queue = Tail(explore_actions)]]
        ELSE [action |-> "EXIT", agent |-> ag]

\* choose_action: [action, agent]
choose_action(s, ag, e, p) ==
    LET here == <<ag.x, ag.y>>
        home == plan_path(here, {<<1, 1>>}, ag.known_safe, e.width, e.height)
        home_actions == path_to_actions(ag, home)
        safe_unvisited == ag.known_safe \ ag.visited
        explore == plan_path(here, safe_unvisited, ag.known_safe,
                             e.width, e.height)
        explore_actions == path_to_actions(ag, explore)
    IN  IF ag.action_queue # <<>>
        THEN [action |-> Head(ag.action_queue),
              agent |-> [ag EXCEPT !.action_queue = Tail(@)]]
        ELSE IF forklift_in_line_of_sight(s, ag, e)
        THEN [action |-> "SHUTDOWN", agent |-> ag]
        ELSE IF p.beacon /\ ~ag.has_package
        THEN [action |-> "GRAB", agent |-> ag]
        ELSE IF ag.has_package
        THEN IF here = <<1, 1>>
             THEN [action |-> "EXIT", agent |-> ag]
             ELSE IF Len(home) > 1
             THEN [action |-> home_actions[1],
                   agent |-> [ag EXCEPT !.action_queue = Tail(home_actions)]]
             ELSE [action |-> "EXIT", agent |-> ag]
        ELSE IF safe_unvisited # {} /\ Len(explore) > 1
        THEN [action |-> explore_actions[1],
              agent |-> [ag EXCEPT !.action_queue = Tail(explore_actions)]]
        ELSE IF here = <<1, 1>>
        THEN [action |-> "EXIT", agent |-> ag]
        ELSE IF Len(home) > 1
        THEN [action |-> home_actions[1],
              agent |-> [ag EXCEPT !.action_queue =
                                      Append(Tail(home_actions), "EXIT")]]
        ELSE [action |-> "EXIT", agent |-> ag]

\* mutant of update_after_step: a TURN_RIGHT is booked as a turn to the left
update_after_step_right_as_left(ag, a, r) ==
    LET d == delta(ag.direction)
        ag1 == IF a = "FORWARD" /\ ~r.percept.bump
               THEN [ag EXCEPT !.x = @ + d[1], !.y = @ + d[2],
                               !.visited = @ \cup {<<ag.x + d[1], ag.y + d[2]>>}]
               ELSE IF a = "TURN_LEFT" \/ a = "TURN_RIGHT"
               THEN [ag EXCEPT !.direction = turn_left(@)]
               ELSE IF a = "GRAB" /\ "grabbed" \in DOMAIN r.info /\ r.info.grabbed
               THEN [ag EXCEPT !.has_package = TRUE]
               ELSE ag
    IN  [ag1 EXCEPT !.step_count = @ + 1]

\* execute_action, after env.step(action) has returned r: the agent
update_after_step(ag, a, r) ==
    LET d == delta(ag.direction)
        ag1 == IF a = "FORWARD" /\ ~r.percept.bump
               THEN [ag EXCEPT !.x = @ + d[1], !.y = @ + d[2],
                               !.visited = @ \cup {<<ag.x + d[1], ag.y + d[2]>>}]
               ELSE IF a = "TURN_LEFT"
               THEN [ag EXCEPT !.direction = turn_left(@)]
               ELSE IF a = "TURN_RIGHT"
               THEN [ag EXCEPT !.direction = turn_right(@)]
               ELSE IF a = "GRAB" /\ "grabbed" \in DOMAIN r.info /\ r.info.grabbed
               THEN [ag EXCEPT !.has_package = TRUE]
               ELSE ag
    IN  [ag1 EXCEPT !.step_count = @ + 1]

(***************************************************************************)
(* run(): the agent drives the environment.  pc is the place in run():     *)
(* "start" before the first tell, "choose" at the top of the while loop,   *)
(* "execute" between choose_action and execute_action, "done" after the    *)
(* return.                                                                 *)
(***************************************************************************)
\* the hazards of configure_rn_example_layout (4x4, damaged floor at (3,1)
\* and (3,3), forklift at (1,3)) with the package on any other cell, as
\* reset() can place it
ExampleLayouts ==
    LET dmg == {<<3, 1>>, <<3, 3>>}
        fl == <<1, 3>>
    IN  {[damaged |-> dmg, forklift |-> fl, package |-> p] :
            p \in (all_positions(4, 4) \ dmg) \ {fl}}

\* the agent is constructed on a fresh environment: any layout of any grid
\* within the bounds, or one of the example layouts
InitAgent ==
    /\ \/ \E w \in 1..MaxWidth, h \in 1..MaxHeight, n \in 0..MaxDamaged :
            /\ GridOk(w, h, n)
            /\ \E l \in Layouts(w, h, n) : EnvIs(reset_env(w, h, n, l))
       \/ \E l \in ExampleLayouts : EnvIs(reset_env(4, 4, 2, l))
    /\ solver = build_warehouse_kb(width, height)
    /\ agent = agent_init
    /\ pc = "start"
    /\ percept = "None"
    /\ action = "None"

\* lines 244-246
RunStart ==
    /\ pc = "start"
    /\ LET t == tell_percepts(solver, agent, last_percept)
       IN  /\ solver' = t[1]
           /\ agent' = update_safety(t[1], t[2])
    /\ percept' = last_percept
    /\ pc' = "choose"
    /\ UNCHANGED <<envVars, ret, action>>

\* line 254
RunChoose ==
    /\ pc = "choose"
    /\ agent.step_count < MaxAgentSteps
    /\ LET c == choose_action(solver, agent, Env, percept)
       IN  /\ action' = c.action
           /\ agent' = c.agent
    /\ pc' = "execute"
    /\ UNCHANGED <<envVars, ret, solver, percept>>

\* lines 255-277: execute_action, the return when done, the tell after a
\* FORWARD that moved
RunExecute ==
    /\ pc = "execute"
    /\ LET r == step(Env, action)
           ag == update_after_step(agent, action, r.ret)
           p == r.ret.percept
           t == tell_percepts(solver, ag, p)
       IN  /\ SetEnv(r.env)
           /\ ret' = r.ret
           /\ percept' = p
           /\ IF r.ret.done
              THEN /\ pc' = "done"
                   /\ agent' = ag
                   /\ solver' = solver
              ELSE /\ pc' = "choose"
                   /\ IF action = "FORWARD" /\ ~p.bump
                      THEN /\ solver' = t[1]
                           /\ agent' = update_safety(t[1], t[2])
                      ELSE /\ solver' = solver
                           /\ agent' = ag
    /\ UNCHANGED action

NextAgent == RunStart \/ RunChoose \/ RunExecute

SpecAgent == InitAgent /\ [][NextAgent]_vars

\* run() has no next step: it has returned, or the step bound is reached
RunBlocked ==
    \/ pc = "done"
    \/ (pc = "choose" /\ agent.step_count >= MaxAgentSteps)

\* run() is a single thread in a while loop: it takes its next step as long
\* as it has one.  This is WF_vars(NextAgent) written out, with
\* ENABLED <<NextAgent>>_vars stated as ~RunBlocked (every step of NextAgent
\* changes pc).
SpecAgentLive ==
    SpecAgent /\ (<>[]RunBlocked \/ []<><<NextAgent>>_vars)

(***************************************************************************)
(* Properties of the agent's run, checked under SpecAgent.                 *)
(***************************************************************************)
\* C7: in every layout the agent driven by run() explores safely: it never
\* moves the robot onto damaged floor or onto the live forklift, so no
\* episode it drives ends with the robot dead.
C7_AgentNeverDies ==
    /\ robot.alive
    /\ <<robot.x, robot.y>> \notin damaged
    /\ ~(forklift_alive /\ <<robot.x, robot.y>> = forklift)

\* the step the agent took last did something: it was not refused, not
\* blocked by a boundary, not an EXIT away from the start cell, not a GRAB
\* that grabbed nothing
AgentStepHadEffect ==
    ret.op = "step" =>
        /\ "error" \notin DOMAIN ret.info
        /\ ~ret.percept.bump
        /\ ("exit" \in DOMAIN ret.info => ret.info.exit # "wrong_location")
        /\ ("grabbed" \in DOMAIN ret.info => ret.info.grabbed)

\* C18: on every layout run() terminates: it reaches a step that reports
\* done=true (the agent has exited at the start cell or died) and returns;
\* it does not go on forever through turns, moves or EXITs without effect:
\* no step the agent takes is without effect.
C18_RunTerminates ==
    /\ []AgentStepHadEffect
    /\ <>(pc = "done" /\ ret.op = "step" /\ ret.done /\ terminated)

\* run() has returned from a long episode in which the agent shut the
\* forklift down and left without the package
C18_Witness ==
    /\ pc = "done"
    /\ ret.done
    /\ terminated
    /\ ~forklift_alive
    /\ ~success
    /\ robot.alive
    /\ agent.step_count >= 10

KBUnsat == kb_unsat(kb_models(solver))

\* C8: known_safe and known_dangerous are disjoint in every state of an
\* episode, also once the told percepts have made the knowledge base
\* unsatisfiable, and both hold only cells of the grid.
C8_BeliefSetsDisjoint ==
    /\ agent.known_safe \cap agent.known_dangerous = {}
    /\ agent.known_safe \subseteq Cells(width, height)
    /\ agent.known_dangerous \subseteq Cells(width, height)

\* the knowledge base is unsatisfiable, update_safety has run on it and
\* classified a cell, and both sets hold cells
C8_Witness ==
    /\ agent.known_safe \cup agent.known_dangerous = Cells(width, height)
    /\ agent.known_dangerous # {}
    /\ Cardinality(agent.known_safe) > 1
    /\ KBUnsat

\* C9: the start cell is in known_safe from the agent's construction on
\* and is never put in known_dangerous, whatever is told afterwards.
C9_StartCellSafe ==
    /\ <<1, 1>> \in agent.known_safe
    /\ <<1, 1>> \notin agent.known_dangerous

\* a percept that rumbles or creaks has been told at the start cell and
\* the cells have been reclassified from it
C9_Witness ==
    /\ pc = "choose"
    /\ \E f \in solver.facts : f.x = 1 /\ f.y = 1 /\ f.val
    /\ agent.known_dangerous # {}

(***************************************************************************)
(* The manual reasoning walkthrough on the example layout: a driver steps  *)
(* the environment configured by configure_rn_example_layout and tells     *)
(* the percept observed at the robot's cell to a knowledge base built by   *)
(* build_warehouse_kb().                                                   *)
(***************************************************************************)
configure_rn_example_layout ==
    reset_env(4, 4, num_damaged,
              [damaged |-> {<<3, 1>>, <<3, 3>>}, forklift |-> <<1, 3>>,
               package |-> <<2, 3>>])

\* mutant of manual_tell_percepts: the creaking literal is told from the
\* rumbling bit
manual_tell_percepts_rumbling_twice(s, p, x, y) ==
    solver_add(solver_add(s, "C", x, y, p.rumbling), "R", x, y, p.rumbling)

\* manual_reasoning.tell_percepts
manual_tell_percepts(s, p, x, y) ==
    solver_add(solver_add(s, "C", x, y, p.creaking), "R", x, y, p.rumbling)

InitRN ==
    /\ num_damaged = 2
    /\ EnvIs(configure_rn_example_layout)
    /\ solver = build_warehouse_kb(4, 4)
    /\ agent = "None"
    /\ pc = "none"
    /\ percept = "None"
    /\ action = "None"

RNStep ==
    \E a \in Action :
        /\ steps < MaxSteps
        /\ Step(a)
        /\ UNCHANGED agentVars

RNTell ==
    /\ robot.alive
    /\ solver' = manual_tell_percepts(solver, last_percept, robot.x, robot.y)
    /\ UNCHANGED <<envVars, ret, agent, pc, percept, action>>

NextRN == RNStep \/ RNTell

SpecRN == InitRN /\ [][NextRN]_vars

(***************************************************************************)
(* Properties of the walkthrough, checked under SpecRN.                    *)
(***************************************************************************)
\* the percept observed at cell c has been told
Told(c) == \E f \in solver.facts : f.x = c[1] /\ f.y = c[2]

\* C10: on the example layout the initial percept is all false; after a
\* FORWARD the robot is at (2,1) with creaking and no rumbling; and once
\* the percepts observed at (1,1), (2,1) and (1,2) are told, the knowledge
\* base entails NOT safe(3,1) and entails safe(2,2).
C10_ExampleWalkthrough ==
    /\ steps = 0 =>
          last_percept = Percept(FALSE, FALSE, FALSE, FALSE, FALSE)
    /\ (steps = 1 /\ history[2].action = "FORWARD") =>
          /\ <<robot.x, robot.y>> = <<2, 1>>
          /\ last_percept.creaking
          /\ ~last_percept.rumbling
    /\ (Told(<<1, 1>>) /\ Told(<<2, 1>>) /\ Told(<<1, 2>>)) =>
          /\ z3_entails(kb_models(solver), not_safe(3, 1))
          /\ z3_entails(kb_models(solver), safe(2, 2))

\* the three percepts are told, with the forklift alive all along, and the
\* knowledge base is satisfiable: the entailments are not vacuous
C10_Witness ==
    /\ Told(<<1, 1>>) /\ Told(<<2, 1>>) /\ Told(<<1, 2>>)
    /\ forklift_alive
    /\ ~kb_unsat(kb_models(solver))
    /\ ~z3_entails(kb_models(solver), safe(3, 1))
    /\ ~z3_entails(kb_models(solver), not_safe(2, 2))


(***************************************************************************)
(* plan_path as a function of its inputs: an agent on any cell of a grid,  *)
(* with any set of cells as known_safe, plans to any goal set of at most   *)
(* MaxGoals cells.  pc is "plan" before the call and "planned" after it;   *)
(* ret holds the arguments and then the path returned (None is <<>>).      *)
(***************************************************************************)
MaxGoals == 2

\* the fields of the environment are those of e
EnvFieldsAre(e) ==
    /\ width = e.width
    /\ height = e.height
    /\ num_damaged = e.num_damaged
    /\ damaged = e.damaged
    /\ forklift = e.forklift
    /\ forklift_alive = e.forklift_alive
    /\ package = e.package
    /\ robot = e.robot
    /\ steps = e.steps
    /\ total_reward = e.total_reward
    /\ last_percept = e.last_percept
    /\ terminated = e.terminated
    /\ success = e.success
    /\ history = e.history

\* an environment of each grid size (plan_path reads its width and height
\* only)
InitPlanEnv ==
    \E w \in 1..MaxWidth, h \in 1..MaxHeight :
        /\ GridOk(w, h, 0)
        /\ EnvFieldsAre(reset_env(w, h, 0, CHOOSE l \in Layouts(w, h, 0) : TRUE))

InitPlan ==
    /\ InitPlanEnv
    /\ solver = build_warehouse_kb(width, height)
    /\ \E start \in Cells(width, height), ks \in SUBSET Cells(width, height) :
          agent = [agent_init EXCEPT !.x = start[1], !.y = start[2],
                                     !.visited = {start}, !.known_safe = ks]
    /\ \E goal_set \in SUBSET Cells(width, height) :
          /\ Cardinality(goal_set) <= MaxGoals
          /\ ret = [op |-> "plan_path", goal_set |-> goal_set]
    /\ pc = "plan"
    /\ percept = "None"
    /\ action = "None"

\* path = self.plan_path((self.x, self.y), goal_set)
PlanCall ==
    /\ pc = "plan"
    /\ ret' = [op |-> "plan_path", goal_set |-> ret.goal_set,
               path |-> plan_path(<<agent.x, agent.y>>, ret.goal_set,
                                  agent.known_safe, width, height)]
    /\ pc' = "planned"
    /\ UNCHANGED <<envVars, solver, agent, percept, action>>

NextPlan == PlanCall

SpecPlan == InitPlan /\ [][NextPlan]_vars

(***************************************************************************)
(* Properties of plan_path, checked under SpecPlan.                        *)
(***************************************************************************)
\* cells a and b are 4-adjacent
Adjacent(a, b) ==
    \/ (a[1] = b[1] /\ (a[2] = b[2] + 1 \/ b[2] = a[2] + 1))
    \/ (a[2] = b[2] /\ (a[1] = b[1] + 1 \/ b[1] = a[1] + 1))

\* the cells within k hops of a cell of S, every hop onto a known-safe cell
\* of the grid
RECURSIVE WithinHops(_, _)
WithinHops(k, S) ==
    IF k = 0
    THEN S
    ELSE LET R == WithinHops(k - 1, S)
         IN  R \cup {c \in Cells(width, height) \cap agent.known_safe :
                        \E d \in R : Adjacent(c, d)}

\* the least number of hops from cell c to a cell of the goal set, -1 when
\* there is none
HopsToGoal(c) ==
    LET ks == {k \in 0..(width * height) :
                  WithinHops(k, {c}) \cap ret.goal_set # {}}
    IN  IF ks = {} THEN -1 ELSE CHOOSE k \in ks : \A j \in ks : k <= j

\* the moves in the order left, right, down, up
MoveOrder == <<(<<-1, 0>>), (<<1, 0>>), (<<0, -1>>), (<<0, 1>>)>>

\* hop i of path p is the first move, in MoveOrder, onto a known-safe cell
\* of the grid from which the goal set is d - i hops away
FirstMoveOnShortest(p, i, d) ==
    LET m == <<p[i + 1][1] - p[i][1], p[i + 1][2] - p[i][2]>>
        j == CHOOSE n \in 1..4 : MoveOrder[n] = m
    IN  \A n \in 1..(j - 1) :
            LET c == <<p[i][1] + MoveOrder[n][1], p[i][2] + MoveOrder[n][2]>>
            IN  ~(/\ c \in Cells(width, height)
                  /\ c \in agent.known_safe
                  /\ HopsToGoal(c) = d - i)

\* C19: plan_path(start, goal_set) returns a path iff a goal cell can be
\* reached from start by 4-adjacent moves onto known-safe cells (or start is
\* a goal); the path begins at start, ends in the goal set, its consecutive
\* cells are 4-adjacent and in the grid, every cell after the first is
\* known safe, its length is the least possible, and among the paths of
\* that length it is the one that takes, at each hop, the first possible
\* move in the order left, right, down, up.
C19_PlanPathIsShortest ==
    pc = "planned" =>
        LET p == ret.path
            start == <<agent.x, agent.y>>
            d == HopsToGoal(start)
        IN  /\ (p # <<>>) <=> (d >= 0)
            /\ (p # <<>>) =>
                  /\ p[1] = start
                  /\ p[Len(p)] \in ret.goal_set
                  /\ \A i \in 2..Len(p) :
                        /\ Adjacent(p[i - 1], p[i])
                        /\ p[i] \in Cells(width, height)
                        /\ p[i] \in agent.known_safe
                  /\ Len(p) = d + 1
                  /\ \A i \in 1..(Len(p) - 1) : FirstMoveOnShortest(p, i, d)

\* a path of four hops was planned around cells not known safe, to one of
\* two goals, from a cell where two moves lay on shortest paths
C19_Witness ==
    /\ pc = "planned"
    /\ Len(ret.path) = 5
    /\ Cardinality(ret.goal_set) = 2
    /\ agent.known_safe # Cells(width, height)
    /\ \E n1, n2 \in 1..4 :
          /\ n1 # n2
          /\ \A n \in {n1, n2} :
                LET c == <<agent.x + MoveOrder[n][1], agent.y + MoveOrder[n][2]>>
                IN  /\ c \in Cells(width, height) \cap agent.known_safe
                    /\ HopsToGoal(c) = 3

(***************************************************************************)
(* turns_between and path_to_actions as functions of their inputs: an      *)
(* agent facing any direction, any target direction, any path of at most   *)
(* MaxPathLen cells whose consecutive cells are 4-adjacent, beginning at   *)
(* the agent's cell.  pc is "translate" before the call, "turned" after    *)
(* turns_between and "translated" after path_to_actions; ret holds the     *)
(* arguments and then the actions returned.                                *)
(***************************************************************************)
MaxPathLen == 4

\* the paths of at most n cells in a w x h grid
Paths(w, h, n) ==
    UNION {{p \in [1..k -> Cells(w, h)] :
                \A i \in 2..k : Adjacent(p[i - 1], p[i])} : k \in 1..n}

InitPath ==
    /\ InitPlanEnv
    /\ solver = build_warehouse_kb(width, height)
    /\ \E path \in Paths(width, height, MaxPathLen), target \in Direction :
          /\ ret = [op |-> "args", path |-> path, target |-> target]
          /\ \E current \in Direction :
                agent = [agent_init EXCEPT !.x = path[1][1], !.y = path[1][2],
                                           !.direction = current,
                                           !.visited = {path[1]}]
    /\ pc = "translate"
    /\ percept = "None"
    /\ action = "None"

\* turns_between(self.direction, target)
TurnsCall ==
    /\ pc = "translate"
    /\ ret' = [op |-> "turns_between", target |-> ret.target,
               actions |-> turns_between(agent.direction, ret.target)]
    /\ pc' = "turned"
    /\ UNCHANGED <<envVars, solver, agent, percept, action>>

\* actions, _ = self.path_to_actions(path)
PathCall ==
    /\ pc = "translate"
    /\ ret' = [op |-> "path_to_actions", path |-> ret.path,
               actions |-> path_to_actions(agent, ret.path)]
    /\ pc' = "translated"
    /\ UNCHANGED <<envVars, solver, agent, percept, action>>

NextPath == TurnsCall \/ PathCall

SpecPath == InitPath /\ [][NextPath]_vars

(***************************************************************************)
(* Properties of the translation, checked under SpecPath.                  *)
(***************************************************************************)
\* the cells a robot at pos facing dir stands on while it executes the
\* actions with the environment's rotations and delta: pos, then the cell
\* after each FORWARD
RECURSIVE CellsWalked(_, _, _)
CellsWalked(pos, dir, actions) ==
    IF actions = <<>>
    THEN <<pos>>
    ELSE LET a == Head(actions)
         IN  IF a = "FORWARD"
             THEN <<pos>> \o CellsWalked(<<pos[1] + delta(dir)[1],
                                          pos[2] + delta(dir)[2]>>,
                                        dir, Tail(actions))
             ELSE IF a = "TURN_LEFT"
             THEN CellsWalked(pos, turn_left(dir), Tail(actions))
             ELSE IF a = "TURN_RIGHT"
             THEN CellsWalked(pos, turn_right(dir), Tail(actions))
             ELSE CellsWalked(pos, dir, Tail(actions))

\* the direction faced after the actions, from dir
RECURSIVE FacingAfter(_, _)
FacingAfter(dir, actions) ==
    IF actions = <<>>
    THEN dir
    ELSE LET a == Head(actions)
         IN  FacingAfter(IF a = "TURN_LEFT" THEN turn_left(dir)
                         ELSE IF a = "TURN_RIGHT" THEN turn_right(dir)
                         ELSE dir,
                         Tail(actions))

\* the least number of 90-degree turns from direction c to direction t
MinTurns(c, t) ==
    IF c = t THEN 0
    ELSE IF turn_left(c) = t \/ turn_right(c) = t THEN 1
    ELSE 2

\* C20: the actions of turns_between(current, target), applied in order
\* with the environment's rotations from current, end facing target, are
\* the least number of 90-degree turns (0, 1 or 2), and are two TURN_RIGHT
\* for a reversal; and the actions of path_to_actions, executed from the
\* path's first cell in the agent's direction, move the robot through the
\* cells of the path in order, with one FORWARD per hop.
C20_TurnsMinimalPathFollowed ==
    /\ pc = "turned" =>
          LET n == MinTurns(agent.direction, ret.target)
          IN  /\ \A i \in 1..Len(ret.actions) :
                    ret.actions[i] \in {"TURN_LEFT", "TURN_RIGHT"}
              /\ FacingAfter(agent.direction, ret.actions) = ret.target
              /\ Len(ret.actions) = n
              /\ n = 2 => ret.actions = <<"TURN_RIGHT", "TURN_RIGHT">>
    /\ pc = "translated" =>
          /\ CellsWalked(<<agent.x, agent.y>>, agent.direction, ret.actions)
                = ret.path
          /\ Cardinality({i \in 1..Len(ret.actions) :
                             ret.actions[i] = "FORWARD"}) = Len(ret.path) - 1
          /\ \A i \in 1..Len(ret.actions) :
                ret.actions[i] \in {"FORWARD", "TURN_LEFT", "TURN_RIGHT"}

\* a path that goes one cell, comes back and leaves sideways was
\* translated, the agent facing away from the first hop: a reversal before
\* the first FORWARD and another after it
C20_Witness ==
    /\ pc = "translated"
    /\ Len(ret.path) = 4
    /\ ret.path[3] = ret.path[1]
    /\ ret.path[4] # ret.path[2]
    /\ Len(ret.actions) = 8
    /\ SubSeq(ret.actions, 1, 3) = <<"TURN_RIGHT", "TURN_RIGHT", "FORWARD">>
    /\ SubSeq(ret.actions, 4, 6) = <<"TURN_RIGHT", "TURN_RIGHT", "FORWARD">>

(***************************************************************************)
(* Properties of the agent's beliefs, bookkeeping and decisions, checked   *)
(* under SpecAgent.                                                        *)
(***************************************************************************)
\* C21: at every decision cycle every cell in known_safe is truly free of
\* damaged floor and of the forklift, and every cell in known_dangerous
\* truly holds damaged floor or the forklift, on every layout, also after
\* a SHUTDOWN and the rumbling=false percepts told next to the disabled
\* forklift.
C21_BeliefsSound ==
    pc = "choose" =>
        /\ \A c \in agent.known_safe : c \notin damaged /\ c # forklift
        /\ \A c \in agent.known_dangerous : c \in damaged \/ c = forklift

\* the cells the robot has occupied, as the episode log has them
CellsOccupied == {<<history[i].robot_x, history[i].robot_y>> :
                     i \in 1..Len(history)}

\* C22: at every decision cycle the agent's x, y, direction and has_package
\* are the robot's true position, direction and carrying flag, and its
\* visited set is the set of cells the robot has occupied.
C22_BookkeepingTracksRobot ==
    pc \in {"choose", "execute", "done"} =>
        /\ agent.x = robot.x
        /\ agent.y = robot.y
        /\ agent.direction = robot.direction
        /\ agent.has_package = robot.has_package
        /\ agent.visited = CellsOccupied

\* the agent has turned both ways, moved, and grabbed the package
C22_Witness ==
    /\ pc = "choose"
    /\ agent.has_package
    /\ robot.has_package
    /\ Cardinality(agent.visited) >= 3
    /\ \E i \in 1..Len(history) : history[i].action = "TURN_LEFT"
    /\ \E i \in 1..Len(history) : history[i].action = "TURN_RIGHT"

\* a cell lies ahead of the agent in its facing direction for which the
\* knowledge base entails the forklift
EntailedForkliftAhead ==
    \E k \in 1..(width + height) :
        <<agent.x + k * delta(agent.direction)[1],
          agent.y + k * delta(agent.direction)[2]>>
            \in entailed_forklift_positions(solver)

\* C23: the agent issues SHUTDOWN at most once per episode, only with an
\* empty action queue and the device unused, and only when a cell for which
\* the knowledge base entails the forklift lies ahead of it; every
\* SHUTDOWN it issues hits the forklift: the step returns beep=true and
\* shutdown_success=true.
C23_ShutdownOnceAndHits ==
    [][(pc = "execute" /\ action = "SHUTDOWN") =>
          /\ agent.action_queue = <<>>
          /\ robot.has_shutdown_device
          /\ \A i \in 1..Len(history) : history[i].action # "SHUTDOWN"
          /\ EntailedForkliftAhead
          /\ forklift_alive
          /\ ForkliftAhead
          /\ ret'.percept.beep
          /\ ret'.info.shutdown_success
          /\ ~forklift_alive'
          /\ ~robot'.has_shutdown_device]_vars

\* the agent has disabled the forklift from a cell other than the start
\* cell, which it had just entered
C23_Witness ==
    /\ pc = "choose"
    /\ ret.op = "step"
    /\ "shutdown_success" \in DOMAIN ret.info
    /\ ret.info.shutdown_success
    /\ ret.percept.beep
    /\ ~forklift_alive
    /\ <<robot.x, robot.y>> # <<1, 1>>
    /\ history[Len(history) - 1].action = "FORWARD"
    /\ agent.step_count >= 4

\* C24: every EXIT the agent issues is issued on the start cell (1,1): it
\* terminates the episode and the environment never reports
\* exit='wrong_location'; at every decision cycle the start cell can be
\* reached from the agent's cell through known-safe cells, so the EXIT
\* fallbacks for 'no path to the start cell' are not taken away from it.
C24_ExitOnlyOnStartCell ==
    /\ (pc = "execute" /\ action = "EXIT") =>
          /\ <<robot.x, robot.y>> = <<1, 1>>
          /\ <<agent.x, agent.y>> = <<1, 1>>
    /\ (ret.op = "step" /\ "exit" \in DOMAIN ret.info) =>
          /\ ret.info.exit # "wrong_location"
          /\ ret.done
          /\ terminated
          /\ pc = "done"
    /\ pc = "choose" =>
          <<1, 1>> \in WithinHops(width * height, {<<agent.x, agent.y>>})

\* the agent found nothing more to explore two hops from the start cell,
\* walked back and left without the package
C24_Witness ==
    /\ pc = "done"
    /\ "exit" \in DOMAIN ret.info
    /\ ret.info.exit = "no_package"
    /\ <<robot.x, robot.y>> = <<1, 1>>
    /\ \E c \in agent.visited : c[1] + c[2] >= 4
    /\ history[Len(history) - 1].action = "FORWARD"

====
